---- MODULE Spec2Model ----
(***************************************************************************)
(* Model of deeprho's training-data provider                               *)
(* (deeprho/data_provider_parallel.py) and of the whole-genome test        *)
(* provider (deeprho/test_provider.py).                                    *)
(*                                                                         *)
(* Python floats are binary floating-point numbers: every arithmetic       *)
(* operation returns the exact result rounded to the nearest representable *)
(* value, ties to even.  binary64 carries a 53-bit significand; the model  *)
(* keeps the rounding rule and carries a Prec-bit significand, the         *)
(* exponent is left unbounded (no overflow, no subnormals).                *)
(***************************************************************************)
EXTENDS Integers, Sequences, FiniteSets, TLC

\* ------------------------------------------------------------------ bounds
\* Width of the significand of the modelled floats (binary64: 53).
Prec == 4
\* Largest --nsam of the interpolation specification.
MaxNsamInterp == 4
\* Largest --nsam, --ndraw and --num-thread of a run.
MaxNsam == 3
MaxNdraw == 2
MaxNumThread == 4

\* ------------------------------------------------- binary floating point
RECURSIVE Pow2(_)
Pow2(k) == IF k <= 0 THEN 1 ELSE 2 * Pow2(k - 1)

RECURSIVE BitLen(_)
BitLen(n) == IF n <= 0 THEN 0 ELSE 1 + BitLen(n \div 2)

\* The float zero, and the floats of the small integers Python converts
\* before a mixed int/float operation.
FZero == [m |-> 0, e |-> 0]

\* (n + d) * 2^e with 0 <= d < 1 and d > 0 iff sticky, rounded to the nearest
\* float with a Prec-bit significand, ties to even.  When sticky, n carries
\* at least Prec + 1 bits.
RoundSticky(n, sticky, e) ==
    IF n = 0 THEN FZero
    ELSE LET k == BitLen(n) - Prec IN
         IF k <= 0
         THEN [m |-> n * Pow2(-k), e |-> e + k]
         ELSE LET low  == n % Pow2(k)
                  half == Pow2(k - 1)
                  q    == n \div Pow2(k)
                  up   == \/ low > half
                          \/ low = half /\ (sticky \/ q % 2 = 1)
                  r    == IF up THEN q + 1 ELSE q
              IN  IF r = Pow2(Prec)
                  THEN [m |-> Pow2(Prec - 1), e |-> e + k + 1]
                  ELSE [m |-> r, e |-> e + k]

Round(n, e) == RoundSticky(n, FALSE, e)

FromInt(n) == Round(n, 0)

Min(a, b) == IF a <= b THEN a ELSE b

\* The significand of x on the exponent e <= x.e.
Aligned(x, e) == x.m * Pow2(x.e - e)

FLe(a, b) == LET e == Min(a.e, b.e) IN Aligned(a, e) <= Aligned(b, e)

FAdd(a, b) == LET e == Min(a.e, b.e) IN Round(Aligned(a, e) + Aligned(b, e), e)

\* a - b for a >= b (the model holds no negative float).
FSub(a, b) == LET e == Min(a.e, b.e) IN Round(Aligned(a, e) - Aligned(b, e), e)

FMul(a, b) == Round(a.m * b.m, a.e + b.e)

\* a / b for b > 0: the quotient to Prec + 2 bits and a sticky remainder.
FDiv(a, b) ==
    IF a.m = 0 THEN FZero
    ELSE LET s   == Prec + 2 + BitLen(b.m) - BitLen(a.m)
             num == a.m * Pow2(s)
         IN  RoundSticky(num \div b.m, num % b.m # 0, a.e - b.e - s)

\* floor(sqrt(n))
RECURSIVE ISqrt(_)
ISqrt(n) ==
    IF n < 2 THEN n
    ELSE LET s == 2 * ISqrt(n \div 4) IN
         IF (s + 1) * (s + 1) > n THEN s ELSE s + 1

\* np.sqrt: the root to Prec + 1 bits and a sticky remainder.
FSqrt(a) ==
    IF a.m = 0 THEN FZero
    ELSE LET odd == (a.e % 2) # 0
             m0  == IF odd THEN 2 * a.m ELSE a.m
             e0  == IF odd THEN a.e - 1 ELSE a.e
             t   == Prec + 2
             n   == m0 * Pow2(2 * t)
             q   == ISqrt(n)
         IN  RoundSticky(q, q * q # n, (e0 \div 2) - t)

\* np.square
FSquare(a) == FMul(a, a)

\* ------------------------------------------------------ rate interpolation
\* recombination_rate_const_interpolation, for nsam >= 2
recombination_rate_const_interpolation(nsam, i, rmin, rmax) ==
    FAdd(FMul(FDiv(FSub(rmax, rmin), FromInt(nsam - 1)), FromInt(i)), rmin)

\* recombination_rate_quadratic_interpolation, for nsam >= 2
recombination_rate_quadratic_interpolation(nsam, i, rmin, rmax) ==
    FSquare(FAdd(FMul(FDiv(FSub(FSqrt(rmax), FSqrt(rmin)), FromInt(nsam - 1)),
                      FromInt(i)),
                 FSqrt(rmin)))

\* The positive floats of three binades: the rates the interpolation
\* specification draws rmin and rmax from.
Floats == { [m |-> m, e |-> e] : m \in Pow2(Prec - 1) .. (Pow2(Prec) - 1),
                                 e \in (-Prec - 1) .. (-Prec + 1) }

VARIABLES
    prog,        \* the entry point run: "data_provider_parallel" or "test_provider"
    args,        \* the parsed command line
    files,       \* the file system: path -> content ("none": no such file)
    pc,          \* the statement run is at
    err,         \* the exception that left run: [kind, line], or NoExc
    pool,        \* [created: pools created so far, size, state]
    dicts,       \* the heap of configuration dicts: reference -> dict
    paras,       \* paras of run: grid index -> [configs: reference, r: rate]
    taskq,       \* the pool's task queue: the chunks no worker has taken
    workers,     \* worker thread -> [todo: rest of its chunk, pc]
    task,        \* grid index -> the simulate() call of that index
    left,        \* chunks of the starmap not yet completed (_number_left)
    firstExc,    \* the first exception a chunk returned, or NoExc
    doneOrder,   \* the grid indices in the order their calls returned
    results,     \* what starmap returned
    haplotypes,  \* run's aggregated lists
    genealogies,
    rhos,
    data,        \* (x, y) handed to save_training_data
    split,       \* (x_train, x_test, y_train, y_test) of train_test_split
    written      \* the run has opened its output file for writing

vars == <<prog, args, files, pc, err, pool, dicts, paras, taskq, workers, task,
          left, firstExc, doneOrder, results, haplotypes, genealogies, rhos,
          data, split, written>>

VARIABLES
    iargs,    \* interpolation specification: the arguments nsam, rmin, rmax
    iconst,   \* the rates returned by the const interpolation, by grid index
    iquad     \* the rates returned by the quadratic interpolation

ivars == <<iargs, iconst, iquad>>

InitInterp ==
    /\ iargs \in { a \in [nsam : 2 .. MaxNsamInterp, rmin : Floats, rmax : Floats] :
                     FLe(a.rmin, a.rmax) }
    /\ iconst = <<>>
    /\ iquad = <<>>

\* One more call of the const interpolation, at the next grid index.
CallConst ==
    /\ Len(iconst) < iargs.nsam
    /\ iconst' = Append(iconst, recombination_rate_const_interpolation(
                                    iargs.nsam, Len(iconst), iargs.rmin, iargs.rmax))
    /\ UNCHANGED <<iargs, iquad, vars>>

\* One more call of the quadratic interpolation, at the next grid index.
CallQuadratic ==
    /\ Len(iquad) < iargs.nsam
    /\ iquad' = Append(iquad, recombination_rate_quadratic_interpolation(
                                  iargs.nsam, Len(iquad), iargs.rmin, iargs.rmax))
    /\ UNCHANGED <<iargs, iconst, vars>>

NextInterp == CallConst \/ CallQuadratic

\* Grid rates lie in [rmin, rmax], never decrease, start at rmin, end at rmax.
GridOk(rates) ==
    /\ \A k \in 1 .. Len(rates) :
          /\ FLe(iargs.rmin, rates[k])
          /\ FLe(rates[k], iargs.rmax)
          /\ k > 1 => FLe(rates[k - 1], rates[k])
    /\ Len(rates) >= 1 => rates[1] = iargs.rmin
    /\ Len(rates) = iargs.nsam => rates[iargs.nsam] = iargs.rmax

\* C2: both interpolations return a rate in [rmin, rmax], non-decreasing in i,
\* equal to rmin at i = 0 and to rmax at i = nsam - 1.
C2_InterpolationBoundedMonotone == GridOk(iconst) /\ GridOk(iquad)

\* -------------------------------------------------------------- the runs
None == "None"

\* No exception; no simulator rate yet; no arrays yet.
NoExc == [kind |-> "None", line |-> 0, task |-> -1]
NoRate == [m |-> -1, e |-> 0]
NoData == [x |-> <<>>, y |-> <<>>]
NoSplit == [x_train |-> <<>>, x_test |-> <<>>, y_train |-> <<>>, y_test |-> <<>>]

\* The paths of the model: --out, --demography, --rate-map.
OutPath == "out.pkl"
DemographyPath == "demo.csv"
RateMapPath == "map.txt"

\* Two rates rmin and rmax are drawn from, and --ne.
RateLo == [m |-> Pow2(Prec - 1) + 1, e |-> -Prec - 1]
RateHi == [m |-> Pow2(Prec) - 3, e |-> -Prec]
Ne == FromInt(3)
\* hap.positions[start + window_size] - hap.positions[start] of a drawn window
\* (the start is drawn at random; every window is given this one length)
WindowLength == FromInt(5)

poolVars == <<taskq, workers, task, left, firstExc, doneOrder>>
listVars == <<results, haplotypes, genealogies, rhos, data, split, iargs, iconst, iquad>>

\* d[k] = v
DictSet(d, k, v) == [x \in DOMAIN d \cup {k} |-> IF x = k THEN v ELSE d[x]]

NoTask == [state |-> "queued", runs |-> 0, simrate |-> NoRate, drawn |-> 0,
           haplotypes |-> <<>>, genealogies |-> <<>>, rhos |-> <<>>, err |-> NoExc]

InitCommon ==
    /\ pc = "assert_out"
    /\ err = NoExc
    /\ pool = [created |-> 0, size |-> 0, state |-> "none"]
    /\ dicts = <<>>
    /\ paras = <<>>
    /\ taskq = <<>>
    /\ workers = <<>>
    /\ task = <<>>
    /\ left = 0
    /\ firstExc = NoExc
    /\ doneOrder = <<>>
    /\ results = <<>>
    /\ haplotypes = <<>>
    /\ genealogies = <<>>
    /\ rhos = <<>>
    /\ data = NoData
    /\ split = NoSplit
    /\ written = FALSE

\* gt_args of data_provider_parallel, and the files the run finds.
InitProvider ==
    /\ prog = "data_provider_parallel"
    /\ args \in [out : {None, OutPath}, rmin : {RateLo, RateHi}, rmax : {RateLo, RateHi},
                 nsam : 1 .. MaxNsam, ndraw : 1 .. MaxNdraw, ne : {Ne},
                 demography : {None, DemographyPath}, rate_map : {None},
                 num_thread : 1 .. MaxNumThread]
    /\ files \in [{OutPath, DemographyPath, RateMapPath} -> {"none", "other"}]
    /\ files[RateMapPath] = "none"
    /\ args.demography = None => files[DemographyPath] = "none"

\* gt_args of test_provider, and the files the run finds.
InitTestProvider ==
    /\ prog = "test_provider"
    /\ args \in [out : {None, OutPath}, rmin : {RateLo}, rmax : {RateLo},
                 nsam : {1}, ndraw : {1}, ne : {Ne},
                 demography : {None, DemographyPath}, rate_map : {None, RateMapPath},
                 num_thread : {1}]
    /\ files \in [{OutPath, DemographyPath, RateMapPath} -> {"none", "other"}]
    /\ args.demography = None => files[DemographyPath] = "none"
    /\ args.rate_map = None => files[RateMapPath] = "none"

\* A run leaves the interpolation specification's state alone.
InterpIdle == iargs = None /\ iconst = <<>> /\ iquad = <<>>

Init == InitCommon /\ InterpIdle /\ (InitProvider \/ InitTestProvider)

\* raise kind at line, outside any simulate() call (task -1)
Raise(kind, line) ==
    /\ pc' = "raised"
    /\ err' = [kind |-> kind, line |-> line, task |-> -1]

InProvider(at) == prog = "data_provider_parallel" /\ pc = at
InTest(at) == prog = "test_provider" /\ pc = at

\* ------------------------------------------- data_provider_parallel.run
\* assert args.out is not None
OutAlwaysOk == TRUE

OutOk == args.out # None

\* assert args.rmax >= args.rmin
RangeOk == FLe(args.rmin, args.rmax)

AssertOut ==
    /\ InProvider("assert_out")
    /\ IF OutOk THEN pc' = "assert_range" /\ err' = err
                ELSE Raise("AssertionError", 93)
    /\ UNCHANGED <<prog, args, files, pool, dicts, paras, poolVars, listVars, written>>

AssertRange ==
    /\ InProvider("assert_range")
    /\ IF RangeOk THEN pc' = "create_pool" /\ err' = err
                  ELSE Raise("AssertionError", 94)
    /\ UNCHANGED <<prog, args, files, pool, dicts, paras, poolVars, listVars, written>>

\* args.num_thread // 2
PoolSize == args.num_thread \div 2

IdleWorker == [todo |-> <<>>, pc |-> "idle"]

\* pool = Pool(args.num_thread // 2): a pool of less than one worker is a ValueError
CreatePool ==
    /\ InProvider("create_pool")
    /\ IF PoolSize < 1
       THEN /\ Raise("ValueError", 101)
            /\ UNCHANGED <<pool, workers>>
       ELSE /\ pool' = [created |-> pool.created + 1, size |-> PoolSize, state |-> "open"]
            /\ workers' = [w \in 1 .. PoolSize |-> IdleWorker]
            /\ pc' = "build_configuration"
            /\ err' = err
    /\ UNCHANGED <<prog, args, files, dicts, paras, taskq, task, left, firstExc,
                   doneOrder, listVars, written>>

\* build_configuration(args); load_demography_from_file raises on a missing file
BaseConfiguration ==
    [k \in {"sequence_length", "rate", "ploidy"} |-> k]

build_configuration ==
    IF args.demography # None
    THEN DictSet(BaseConfiguration, "demography", args.demography)
    ELSE DictSet(BaseConfiguration, "population_size", args.ne)

BuildConfiguration ==
    /\ InProvider("build_configuration")
    /\ IF args.demography # None /\ files[args.demography] = "none"
       THEN /\ Raise("LoadDemographyError", 44)
            /\ dicts' = dicts
       ELSE /\ dicts' = [ref \in {0} |-> build_configuration]
            /\ pc' = "build_paras"
            /\ err' = err
    /\ UNCHANGED <<prog, args, files, pool, paras, poolVars, listVars, written>>

\* The reference of the dict that paras[i] holds: configs.copy() is a dict of
\* its own for every grid index (run's configs is reference 0).
ParasConfigRefShared(i) == 0

ParasConfigRef(i) == i + 1

\* paras = [(configs.copy(), args, rate(nsam, i, rmin, rmax)) for i in range(nsam)]
\* nsam = 1 divides by nsam - 1 = 0.
BuildParas ==
    /\ InProvider("build_paras")
    /\ IF args.nsam = 1
       THEN /\ Raise("ZeroDivisionError", 108)
            /\ UNCHANGED <<dicts, paras, task>>
       ELSE /\ paras' = [i \in 0 .. args.nsam - 1 |->
                           [configs |-> ParasConfigRef(i),
                            r |-> recombination_rate_const_interpolation(
                                      args.nsam, i, args.rmin, args.rmax)]]
            /\ dicts' = [ref \in {0} \cup {ParasConfigRef(i) : i \in 0 .. args.nsam - 1}
                           |-> dicts[0]]
            /\ task' = [i \in 0 .. args.nsam - 1 |-> NoTask]
            /\ pc' = "starmap"
            /\ err' = err
    /\ UNCHANGED <<prog, args, files, pool, taskq, workers, left, firstExc, doneOrder,
                   listVars, written>>

\* Pool.starmap cuts the tasks into chunks of this many (multiprocessing.pool).
Chunksize(n, size) ==
    LET q == n \div (size * 4)
        r == n % (size * 4)
    IN  IF r # 0 THEN q + 1 ELSE q

RECURSIVE Chunks(_, _, _)
Chunks(from, n, c) ==
    IF from >= n THEN <<>>
    ELSE <<[k \in 1 .. Min(c, n - from) |-> from + k - 1]>> \o Chunks(from + c, n, c)

\* with pool: results = pool.starmap(simulate, paras)   (the tasks are queued)
Starmap ==
    /\ InProvider("starmap")
    /\ taskq' = Chunks(0, args.nsam, Chunksize(args.nsam, pool.size))
    /\ left' = Len(taskq')
    /\ pc' = "starmap_wait"
    /\ UNCHANGED <<prog, args, files, err, pool, dicts, paras, workers, task, firstExc,
                   doneOrder, listVars, written>>

\* simulate() of grid index i starts.
Begin(t, i) == [t EXCEPT ![i].state = "running", ![i].runs = @ + 1]

\* An idle worker takes the next chunk of the queue.
WorkerTake == \E w \in DOMAIN workers :
    /\ InProvider("starmap_wait")
    /\ workers[w].pc = "idle"
    /\ taskq # <<>>
    /\ workers' = [workers EXCEPT ![w] = [todo |-> Head(taskq), pc |-> "l72"]]
    /\ task' = Begin(task, Head(taskq)[1])
    /\ taskq' = Tail(taskq)
    /\ UNCHANGED <<prog, args, files, pc, err, pool, dicts, paras, left, firstExc,
                   doneOrder, listVars, written>>

\* configs['recombination_rate'] = r
SimWrite == \E w \in DOMAIN workers :
    /\ InProvider("starmap_wait")
    /\ workers[w].pc = "l72"
    /\ LET i == Head(workers[w].todo) IN
         dicts' = [dicts EXCEPT ![paras[i].configs] =
                      DictSet(@, "recombination_rate", paras[i].r)]
    /\ workers' = [workers EXCEPT ![w].pc = "l73"]
    /\ UNCHANGED <<prog, args, files, pc, err, pool, paras, taskq, task, left, firstExc,
                   doneOrder, listVars, written>>

\* The call of grid index Head(todo) raised: its chunk ends with that exception,
\* the rest of the chunk is never run, the worker is idle again.
TaskRaised(w, kind, line) ==
    LET i == Head(workers[w].todo) IN
    /\ task' = [task EXCEPT ![i].state = "raised",
                            ![i].err = [kind |-> kind, line |-> line, task |-> i]]
    /\ firstExc' = IF firstExc = NoExc
                   THEN [kind |-> kind, line |-> line, task |-> i] ELSE firstExc
    /\ left' = left - 1
    /\ workers' = [workers EXCEPT ![w] = IdleWorker]

\* simulator = popgen.Simulator(configs); the genome is simulated, filtered,
\* cut into one window and its genealogies inferred, or the library raises.
SimBuild == \E w \in DOMAIN workers :
    /\ InProvider("starmap_wait")
    /\ workers[w].pc = "l73"
    /\ LET i == Head(workers[w].todo) IN
         \/ /\ task' = [task EXCEPT ![i].simrate =
                            dicts[paras[i].configs]["recombination_rate"]]
            /\ workers' = [workers EXCEPT ![w].pc = "l81"]
            /\ UNCHANGED <<left, firstExc>>
         \/ TaskRaised(w, "SimulationError", 73)
    /\ UNCHANGED <<prog, args, files, pc, err, pool, dicts, paras, taskq, doneOrder,
                   listVars, written>>

\* scaled_rho = 2 * configs['population_size'] * r * length
ScaledRho(configs, r, length) ==
    FMul(FMul(FMul(FromInt(2), configs["population_size"]), r), length)

\* One draw of the loop over range(args.ndraw): a window of the haplotype and
\* of its genealogies is appended, then its scaled rho, which reads
\* configs['population_size'].
SimDraw == \E w \in DOMAIN workers :
    /\ InProvider("starmap_wait")
    /\ workers[w].pc = "l81"
    /\ LET i == Head(workers[w].todo)
           j == task[i].drawn
           configs == dicts[paras[i].configs]
       IN
         /\ j < args.ndraw
         /\ IF "population_size" \in DOMAIN configs
            THEN /\ task' = [task EXCEPT
                      ![i].haplotypes = Append(@, [task |-> i, draw |-> j]),
                      ![i].genealogies = Append(@, [task |-> i, draw |-> j]),
                      ![i].rhos = Append(@, [task |-> i, draw |-> j,
                                   rho |-> ScaledRho(configs, paras[i].r, WindowLength)]),
                      ![i].drawn = j + 1]
                 /\ UNCHANGED <<workers, left, firstExc>>
            ELSE TaskRaised(w, "KeyError", 87)
    /\ UNCHANGED <<prog, args, files, pc, err, pool, dicts, paras, taskq, doneOrder,
                   listVars, written>>

\* return haplotypes, genealogies, rhos; the worker goes on with its chunk.
SimReturn == \E w \in DOMAIN workers :
    /\ InProvider("starmap_wait")
    /\ workers[w].pc = "l81"
    /\ LET i == Head(workers[w].todo)
           rest == Tail(workers[w].todo)
       IN
         /\ task[i].drawn = args.ndraw
         /\ doneOrder' = Append(doneOrder, i)
         /\ IF rest = <<>>
            THEN /\ task' = [task EXCEPT ![i].state = "done"]
                 /\ workers' = [workers EXCEPT ![w] = IdleWorker]
                 /\ left' = left - 1
            ELSE /\ task' = Begin([task EXCEPT ![i].state = "done"], rest[1])
                 /\ workers' = [workers EXCEPT ![w] = [todo |-> rest, pc |-> "l72"]]
                 /\ left' = left
    /\ UNCHANGED <<prog, args, files, pc, err, pool, dicts, paras, taskq, firstExc,
                   listVars, written>>

\* What simulate() of grid index i returned.
TaskResult(i) ==
    IF task[i].state = "done"
    THEN <<task[i].haplotypes, task[i].genealogies, task[i].rhos>>
    ELSE <<<<>>, <<>>, <<>>>>

\* starmap returns the results in the order of paras, whatever order the
\* calls returned in.
ResultOrderCompletion == doneOrder

ResultOrder == [k \in 1 .. args.nsam |-> k - 1]

\* starmap re-raises the first exception a chunk returned.
StarmapNeverRaises == FALSE

StarmapRaises == firstExc # NoExc

\* Every chunk has completed (Python 3.8 and later wait for all of them, also
\* after a failure): starmap returns or raises, and the with block terminates
\* the pool.
StarmapReturn ==
    /\ InProvider("starmap_wait")
    /\ left = 0
    /\ pool' = [pool EXCEPT !.state = "terminated"]
    /\ IF StarmapRaises
       THEN /\ pc' = "raised"
            /\ err' = firstExc
            /\ results' = results
       ELSE /\ results' = [k \in 1 .. Len(ResultOrder) |-> TaskResult(ResultOrder[k])]
            /\ pc' = "aggregate"
            /\ err' = err
    /\ UNCHANGED <<prog, args, files, dicts, paras, poolVars, haplotypes, genealogies,
                   rhos, data, split, written, ivars>>

RECURSIVE Concat(_, _)
Concat(rs, field) ==
    IF rs = <<>> THEN <<>> ELSE Head(rs)[field] \o Concat(Tail(rs), field)

\* for result in results: haplotypes += result[0]; genealogies += result[1]; rhos += result[2]
Aggregate ==
    /\ InProvider("aggregate")
    /\ haplotypes' = Concat(results, 1)
    /\ genealogies' = Concat(results, 2)
    /\ rhos' = Concat(results, 3)
    /\ pc' = "statistics"
    /\ UNCHANGED <<prog, args, files, err, pool, dicts, paras, poolVars, results, data,
                   split, written, ivars>>

\* rfdist, triplet_dist, linkage_disequilibrium: one row of features per
\* window, one row of targets per rho; or the library raises.  The order the
\* calls returned in is of no use past the aggregation and is dropped.
Statistics ==
    /\ InProvider("statistics")
    /\ \/ /\ data' = [x |-> [k \in 1 .. Len(haplotypes) |->
                               [ld |-> haplotypes[k], rf |-> genealogies[k],
                                tri |-> genealogies[k]]],
                      y |-> rhos]
          /\ pc' = "save_assert_path"
          /\ err' = err
       \/ /\ Raise("StatisticsError", 117)
          /\ data' = data
    /\ doneOrder' = <<>>
    /\ UNCHANGED <<prog, args, files, pool, dicts, paras, taskq, workers, task, left,
                   firstExc, results, haplotypes, genealogies, rhos, split, written,
                   ivars>>

\* ------------------------------------------------------ save_training_data
\* assert path is not None
SaveAssertPath ==
    /\ InProvider("save_assert_path")
    /\ IF args.out # None THEN pc' = "save_assert_new" /\ err' = err
                          ELSE Raise("AssertionError", 59)
    /\ UNCHANGED <<prog, args, files, pool, dicts, paras, poolVars, listVars, written>>

\* assert not os.path.exists(path)
SaveAssertNew ==
    /\ InProvider("save_assert_new")
    /\ IF files[args.out] = "none" THEN pc' = "save_split" /\ err' = err
                                   ELSE Raise("AssertionError", 60)
    /\ UNCHANGED <<prog, args, files, pool, dicts, paras, poolVars, listVars, written>>

\* train_test_split's test rows for test_size = 0.2: ceil(0.2 * n), which in
\* binary64 is ceil(n / 5) for every n below 200000.
NTestHalf(n) == (n + 1) \div 2

NTest(n) == (n + 4) \div 5

\* The rows of seq whose index is in S, in order.
RECURSIVE Pick(_, _, _)
Pick(seq, S, k) ==
    IF k > Len(seq) THEN <<>>
    ELSE (IF k \in S THEN <<seq[k]>> ELSE <<>>) \o Pick(seq, S, k + 1)

\* x_train, x_test, y_train, y_test = train_test_split(x, y, test_size=0.2):
\* a shuffle picks the test rows, the same rows of x and of y; arrays of
\* different lengths, or a split that leaves no train row, are a ValueError.
SaveSplit ==
    /\ InProvider("save_split")
    /\ LET n == Len(data.x) IN
       IF Len(data.y) # n \/ n - NTest(n) <= 0
       THEN /\ Raise("ValueError", 62)
            /\ split' = split
       ELSE \E T \in SUBSET (1 .. n) :
              /\ Cardinality(T) = NTest(n)
              /\ split' = [x_train |-> Pick(data.x, (1 .. n) \ T, 1),
                           x_test  |-> Pick(data.x, T, 1),
                           y_train |-> Pick(data.y, (1 .. n) \ T, 1),
                           y_test  |-> Pick(data.y, T, 1)]
              /\ pc' = "save_dump"
              /\ err' = err
    /\ UNCHANGED <<prog, args, files, pool, dicts, paras, poolVars, results, haplotypes,
                   genealogies, rhos, data, written, ivars>>

\* with open(path, mode='wb') as out: pickle.dump(..., out)
\* mode 'wb' creates the file, or truncates the one that is there.  The
\* logging line that follows formats the global args, which only the script's
\* __main__ block defines: a NameError when run is called from another module.
SaveDump ==
    /\ InProvider("save_dump")
    /\ files' = [files EXCEPT ![args.out] = "pickle"]
    /\ written' = TRUE
    /\ \/ pc' = "done" /\ err' = err
       \/ Raise("NameError", 66)
    /\ UNCHANGED <<prog, args, pool, dicts, paras, poolVars, listVars>>

\* Another run, or any other process, creates a file at the output path.
OtherProcessCreates ==
    /\ pc \notin {"done", "raised"}
    /\ files[OutPath] = "none"
    /\ files' = [files EXCEPT ![OutPath] = "other"]
    /\ UNCHANGED <<prog, args, pc, err, pool, dicts, paras, poolVars, listVars, written>>

\* --------------------------------------------------- test_provider.run
TAssertOut ==
    /\ InTest("assert_out")
    /\ IF args.out # None THEN pc' = "assert_demography" /\ err' = err
                          ELSE Raise("AssertionError", 34)
    /\ UNCHANGED <<prog, args, files, pool, dicts, paras, poolVars, listVars, written>>

\* if args.demography is not None: assert os.path.exists(args.demography)
TAssertDemography ==
    /\ InTest("assert_demography")
    /\ IF args.demography # None /\ files[args.demography] = "none"
       THEN Raise("AssertionError", 36)
       ELSE pc' = "assert_rate_map" /\ err' = err
    /\ UNCHANGED <<prog, args, files, pool, dicts, paras, poolVars, listVars, written>>

\* if args.rate_map is not None: assert os.path.exists(args.rate_map)
TAssertRateMap ==
    /\ InTest("assert_rate_map")
    /\ IF args.rate_map # None /\ files[args.rate_map] = "none"
       THEN Raise("AssertionError", 38)
       ELSE pc' = "build_configuration" /\ err' = err
    /\ UNCHANGED <<prog, args, files, pool, dicts, paras, poolVars, listVars, written>>

\* build_configuration of test_provider
test_build_configuration ==
    LET base == [k \in {"rate", "ploidy", "recombination_rate", "sequence_length"} |->
                   IF k \in {"recombination_rate", "sequence_length"} /\ args.rate_map # None
                   THEN args.rate_map ELSE k]
    IN  IF args.demography # None
        THEN DictSet(base, "demography", args.demography)
        ELSE DictSet(base, "population_size", args.ne)

TBuildConfiguration ==
    /\ InTest("build_configuration")
    /\ dicts' = [ref \in {0} |-> test_build_configuration]
    /\ pc' = "simulate"
    /\ UNCHANGED <<prog, args, files, err, pool, paras, poolVars, listVars, written>>

\* genome = simulate_single_genome(configs, args), or the library raises
TSimulate ==
    /\ InTest("simulate")
    /\ \/ pc' = "write_vcf" /\ err' = err
       \/ Raise("SimulationError", 29)
    /\ UNCHANGED <<prog, args, files, pool, dicts, paras, poolVars, listVars, written>>

\* with open(args.out, 'w') as vcf_file: genome.ts.write_vcf(output=vcf_file)
TWriteVcf ==
    /\ InTest("write_vcf")
    /\ files' = [files EXCEPT ![args.out] = "vcf"]
    /\ written' = TRUE
    /\ pc' = "done"
    /\ UNCHANGED <<prog, args, err, pool, dicts, paras, poolVars, listVars>>

Next ==
    \/ AssertOut \/ AssertRange \/ CreatePool \/ BuildConfiguration \/ BuildParas
    \/ Starmap
    \/ WorkerTake
    \/ SimWrite
    \/ SimBuild
    \/ SimDraw
    \/ SimReturn
    \/ StarmapReturn \/ Aggregate \/ Statistics
    \/ SaveAssertPath \/ SaveAssertNew \/ SaveSplit \/ SaveDump
    \/ OtherProcessCreates
    \/ TAssertOut \/ TAssertDemography \/ TAssertRateMap \/ TBuildConfiguration
    \/ TSimulate \/ TWriteVcf

\* The interpolation specification leaves the run's state alone.
RunIdle == InitCommon /\ prog = None /\ args = None /\ files = <<>>

InitInterpolation == InitInterp /\ RunIdle

SpecInterp == InitInterpolation /\ [][NextInterp]_<<vars, ivars>>

Spec == Init /\ [][Next]_<<vars, ivars>>

\* ------------------------------------------------------------- the claims
Provider == prog = "data_provider_parallel"

\* C1: save_training_data never overwrites: a file that exists at the output
\* path, whenever it was created before the path is opened, keeps its content.
C1_ExistingFileKept ==
    [][(Provider /\ files[OutPath] # "none") => files'[OutPath] = files[OutPath]]_<<vars, ivars>>

\* C3: once save_training_data has dumped the split of N rows, the train and
\* test rows sum to N, features and targets have equal rows in each partition,
\* and the test partition is 20% of N rounded up to a whole row.
C3_SplitCounts ==
    (Provider /\ written) =>
        LET n == Len(data.x) IN
        /\ files[args.out] = "pickle"
        /\ Len(data.y) = n
        /\ Len(split.x_train) + Len(split.x_test) = n
        /\ Len(split.x_train) = Len(split.y_train)
        /\ Len(split.x_test) = Len(split.y_test)
        /\ 5 * Len(split.x_test) >= n
        /\ 5 * Len(split.x_test) < n + 5

C3_SavedSix ==
    /\ Provider /\ pc = "done"
    /\ Len(split.x_test) = 2
    /\ Len(split.x_train) = 4

\* C4: with --out unset or rmax < rmin, run fails with an assertion error of
\* its first two statements: no pool, no simulate() call, no file written.
C4_BadInputsRejected ==
    (Provider /\ (args.out = None \/ ~FLe(args.rmin, args.rmax))) =>
        /\ pc \in {"assert_out", "assert_range", "raised"}
        /\ pc = "raised" => err.kind = "AssertionError" /\ err.line \in {93, 94}
        /\ pool.created = 0
        /\ task = <<>>
        /\ ~written

C4_RangeRejected ==
    /\ Provider /\ pc = "raised"
    /\ args.out # None /\ ~FLe(args.rmin, args.rmax)
    /\ err = [kind |-> "AssertionError", line |-> 94, task |-> -1]

MissingInput ==
    \/ args.demography # None /\ files[args.demography] = "none"
    \/ args.rate_map # None /\ files[args.rate_map] = "none"

\* C5: in both entry points a missing demography or rate-map file is rejected
\* by a precondition assertion of run: build_configuration is never entered
\* with the file missing.  (Stated for num_thread >= 2, where the pool of
\* data_provider_parallel can be created.)
C5_MissingFileAsserted ==
    (MissingInput /\ args.num_thread >= 2) =>
        /\ dicts = <<>>
        /\ pc = "raised" => err.kind = "AssertionError" /\ err.line \in {34, 36, 38, 93, 94}

\* The configuration of grid index i: the one run built, with the rate of i
\* once the call has written it.
OwnConfig(i) ==
    IF task[i].state = "queued" \/ (\E w \in DOMAIN workers :
           workers[w].pc = "l72" /\ workers[w].todo # <<>> /\ Head(workers[w].todo) = i)
    THEN build_configuration
    ELSE DictSet(build_configuration, "recombination_rate", paras[i].r)

\* C6: no simulate() call observes the rate another call wrote: every
\* simulator is built with the rate of its own grid index, every rho is
\* computed from it, run's configuration and the other tasks' are unchanged.
C6_NoSharedConfig ==
    (Provider /\ paras # <<>>) =>
        /\ dicts[0] = build_configuration
        /\ \A i \in DOMAIN paras :
              /\ paras[i].r = recombination_rate_const_interpolation(
                                  args.nsam, i, args.rmin, args.rmax)
              /\ dicts[paras[i].configs] = OwnConfig(i)
              /\ task[i].simrate \in {NoRate, paras[i].r}
              /\ \A k \in 1 .. Len(task[i].rhos) :
                    task[i].rhos[k].rho =
                        FMul(FMul(FMul(FromInt(2), args.ne), paras[i].r), WindowLength)

C6_TwoCallsInterleaved ==
    /\ Provider
    /\ \E i, j \in DOMAIN paras :
          /\ paras[i].r # paras[j].r
          /\ task[i].state = "running" /\ task[j].state = "running"
          /\ task[i].simrate = paras[i].r /\ task[j].simrate = paras[j].r
          /\ task[i].rhos # <<>> /\ task[j].rhos # <<>>

\* C7: no retry and no partial result: no simulate() call runs twice; once a
\* call or the statistics raised, run ends with that very exception, nothing
\* is aggregated and no output file is written.
C7_NoRecovery ==
    Provider =>
        /\ \A i \in DOMAIN task : task[i].runs <= 1
        /\ \A i \in DOMAIN task : task[i].state = "raised" => firstExc # NoExc
        /\ firstExc # NoExc =>
              /\ pc \in {"starmap_wait", "raised"}
              /\ pc = "raised" => err = firstExc /\ err = task[err.task].err
              /\ results = <<>> /\ haplotypes = <<>> /\ genealogies = <<>> /\ rhos = <<>>
              /\ ~written
        /\ (pc = "raised" /\ err.kind = "StatisticsError") => ~written

C7_FailedAfterSuccess ==
    /\ Provider /\ pc = "raised"
    /\ err.kind = "SimulationError"
    /\ \E j \in DOMAIN task : task[j].state = "done" /\ task[j].rhos # <<>>

Running == {i \in DOMAIN task : task[i].state = "running"}

\* C8: for every num_thread >= 1, run creates exactly one pool of
\* num_thread // 2 >= 1 workers, never more calls in progress than workers,
\* and the pool is shut down once starmap returned or raised.
C8_OnePoolOfHalfTheThreads ==
    (/\ Provider /\ args.num_thread >= 1
     /\ pc \notin {"assert_out", "assert_range", "create_pool"}
     /\ ~(pc = "raised" /\ err.line \in {93, 94})) =>
        /\ pool.created = 1
        /\ pool.size = args.num_thread \div 2
        /\ pool.size >= 1
        /\ Cardinality(Running) <= pool.size
        /\ pc \in {"aggregate", "statistics", "save_assert_path", "save_assert_new",
                   "save_split", "save_dump", "done"} => pool.state = "terminated"

RECURSIVE InGridOrder(_, _)
InGridOrder(i, field) ==
    IF i >= args.nsam THEN <<>> ELSE task[i][field] \o InGridOrder(i + 1, field)

\* C9: aggregation starts after all nsam calls returned, takes each grid
\* index once, in grid-index order, and keeps the three lists aligned.
C9_AggregationAligned ==
    (Provider /\ pc \in {"aggregate", "statistics", "save_assert_path", "save_assert_new",
                         "save_split", "save_dump", "done"}) =>
        /\ \A i \in 0 .. args.nsam - 1 : task[i].state = "done" /\ task[i].runs = 1
        /\ pc # "aggregate" =>
              /\ haplotypes = InGridOrder(0, "haplotypes")
              /\ genealogies = InGridOrder(0, "genealogies")
              /\ rhos = InGridOrder(0, "rhos")
              /\ Len(haplotypes) = args.nsam * args.ndraw
              /\ Len(genealogies) = Len(haplotypes) /\ Len(rhos) = Len(haplotypes)
              /\ \A k \in 1 .. Len(haplotypes) :
                    /\ genealogies[k] = haplotypes[k]
                    /\ rhos[k].task = haplotypes[k].task
                    /\ rhos[k].draw = haplotypes[k].draw

C9_FinishedOutOfOrder ==
    /\ Provider /\ pc = "statistics"
    /\ doneOrder # <<>> /\ doneOrder[1] # 0
    /\ Len(rhos) >= 2

\* C10: with and without --demography, every simulate() call completes each
\* draw with its scaled rho: no call fails on the key 'population_size'.
C10_PopulationSizePresent ==
    Provider =>
        \A i \in DOMAIN task :
           /\ task[i].err.kind # "KeyError"
           /\ task[i].state = "done" => Len(task[i].rhos) = args.ndraw
====
